---- MODULE Spec2Model ----
(***************************************************************************)
(* Model of the context-aggregation and multi-turn conversation engine of  *)
(* src/writing_assistant.py: load_memo_context, find_related_memos,        *)
(* build_interview_context, ConversationState, interactive_interview_mode  *)
(* and resume_interview_session, over a small artifact store.              *)
(*                                                                         *)
(* Text is modelled as a sequence of one-character strings, so that the    *)
(* code's strip(), lower(), slicing and regular-expression tokenisation    *)
(* are computed and not assumed.                                           *)
(***************************************************************************)
EXTENDS Integers, Sequences, FiniteSets, TLC

VARIABLES
    clock,            \* the time the last command started at, in ticks of
                      \* 1/TicksPerSecond second; commands start one tick
                      \* apart and each is taken to run within its tick
    runs,             \* number of command invocations started so far
    transcripts,      \* <root>/<memoId>.txt : memo id -> file text
    analysis_files,   \* <root>/analysis/<kind>/<memoId>_<kind>.json
    session_files,    \* writing_projects/*_interactive_interview_*.json
    insight_files,    \* writing_projects/*_interview_insights_*.md
    pc,               \* position of the running command
    mode,             \* "new" | "resume": which driver is running
    site,             \* call site of the outstanding / last generation call
    context,          \* the InterviewContext of the running driver
    conversation,     \* the ConversationState of the running driver
    opening_question, \* the driver's local variable opening_question
    request,          \* the prompt of the outstanding generation request
    shown,            \* the question last printed to the user
    entered,          \* the (question shown, answer) pairs entered this run
    answered,         \* number of answers entered since the start
    resumed,          \* the session data the running driver was resumed from
    save_status,      \* "none" | "saved" | "failed": save_session of this run
    outcome,          \* how the last command ended
    call,             \* the last read-only query made of the store
    returned          \* what that query returned

vars == <<clock, runs, transcripts, analysis_files, session_files,
          insight_files, pc, mode, site, context, conversation,
          opening_question, request, shown,
          entered, answered, resumed, save_status, outcome, call, returned>>

----------------------------------------------------------------------------
(* Bounds of the model *)

\* command invocations (new interview or resume) in one behaviour
MaxRuns == 2
\* answers entered in one behaviour, over all its commands
MaxAnswers == 3

----------------------------------------------------------------------------
(* Text *)

\* Python's None; distinct from every text, whose elements are single characters
None == <<"<None>">>

Min(a, b) == IF a <= b THEN a ELSE b

\* s[:n]
Take(s, n) == SubSeq(s, 1, Min(n, Len(s)))

\* str.isspace for the characters that occur
IsSpace(c) == c \in {" ", "\t", "\n"}

RECURSIVE LStrip(_)
LStrip(s) == IF s # <<>> /\ IsSpace(Head(s)) THEN LStrip(Tail(s)) ELSE s

RECURSIVE RStrip(_)
RStrip(s) ==
    IF s # <<>> /\ IsSpace(s[Len(s)]) THEN RStrip(SubSeq(s, 1, Len(s) - 1)) ELSE s

\* str.strip()
Strip(s) == RStrip(LStrip(s))

UpperToLower ==
    ("A" :> "a") @@ ("B" :> "b") @@ ("C" :> "c") @@ ("D" :> "d") @@ ("E" :> "e") @@
    ("F" :> "f") @@ ("G" :> "g") @@ ("H" :> "h") @@ ("I" :> "i") @@ ("J" :> "j") @@
    ("K" :> "k") @@ ("L" :> "l") @@ ("M" :> "m") @@ ("N" :> "n") @@ ("O" :> "o") @@
    ("P" :> "p") @@ ("Q" :> "q") @@ ("R" :> "r") @@ ("S" :> "s") @@ ("T" :> "t") @@
    ("U" :> "u") @@ ("V" :> "v") @@ ("W" :> "w") @@ ("X" :> "x") @@ ("Y" :> "y") @@
    ("Z" :> "z")

UpperCase == DOMAIN UpperToLower
LowerCase == {UpperToLower[u] : u \in UpperCase}

\* str.lower()
Lower(s) == [i \in 1..Len(s) |-> IF s[i] \in UpperCase THEN UpperToLower[s[i]] ELSE s[i]]

\* the characters of the regular expression class \w
WordChars ==
    UpperCase \cup LowerCase \cup {"0", "1", "2", "3", "4", "5", "6", "7", "8", "9", "_"}

IsWordChar(c) == c \in WordChars

\* shortest word the tokeniser keeps: \w{4,}
MinWordLen == 4

\* last index of the run of word characters that starts at i
RECURSIVE RunEnd(_, _)
RunEnd(s, i) == IF i < Len(s) /\ IsWordChar(s[i + 1]) THEN RunEnd(s, i + 1) ELSE i

\* set(re.findall(r'\b\w{4,}\b', s)): the maximal runs of word characters
\* that are at least MinWordLen long
FindWords(s) ==
    LET starts == {i \in 1..Len(s) :
                      IsWordChar(s[i]) /\ (i = 1 \/ ~IsWordChar(s[i - 1]))}
    IN  {SubSeq(s, i, RunEnd(s, i)) :
            i \in {j \in starts : RunEnd(s, j) - j + 1 >= MinWordLen}}

\* dict.get(key, default)
Get(d, k, default) == IF k \in DOMAIN d THEN d[k] ELSE default

\* the empty dict {}
EmptyDict == [k \in {} |-> {}]

Range(s) == {s[i] : i \in 1..Len(s)}

\* s is a prefix of t
IsPrefix(s, t) == Len(s) <= Len(t) /\ SubSeq(t, 1, Len(s)) = s

\* the content of a file whose open() or read() raises something other than
\* FileNotFoundError (no permission, bytes that do not decode); distinct
\* from every text
Unreadable == <<"<unreadable>">>

----------------------------------------------------------------------------
(* The artifact store *)

\* a memo id is the stem of its transcript file: a prefix and a number
MemoId(p, n) == [prefix |-> p, num |-> n]

Memo46 == MemoId("memo_", 46)
Memo47 == MemoId("memo_", 47)
Memo48 == MemoId("memo_", 48)
\* a memo id with no transcript file
Memo9999 == MemoId("memo_", 9999)

Transcript46 ==
    <<"I"," ","w","a","n","t"," ","t","o"," ","w","r","i","t","e"," ","a","b","o","u",
      "t"," ","m","y"," ","g","r","a","n","d","m","o","t","h","e","r","'","s"," ","r",
      "e","c","i","p","e","s"," ","a","n","d"," ","t","h","e"," ","s","t","o","r","i",
      "e","s"," ","b","e","h","i","n","d"," ","t","h","e","m">>

Transcript47 ==
    <<"S","t","o","r","i","e","s"," ","a","b","o","u","t"," ","r","e","c","i","p","e",
      "s"," ","f","r","o","m"," ","m","y"," ","g","r","a","n","d","m","o","t","h","e",
      "r","\n">>

Transcript48 ==
    <<"R","e","m","e","m","b","e","r"," ","t","o"," ","w","r","i","t","e"," ","t","h",
      "e"," ","b","u","d","g","e","t"," ","r","e","p","o","r","t">>

RecipesIdea ==
    <<"g","r","a","n","d","m","o","t","h","e","r","'","s"," ","r","e","c","i","p","e",
      "s"," ","e","s","s","a","y">>

SeedQuestion ==
    <<"W","h","i","c","h"," ","r","e","c","i","p","e"," ","f","i","r","s","t","?">>

InitialTranscripts ==
    (Memo46 :> Transcript46) @@ (Memo47 :> Transcript47) @@ (Memo48 :> Transcript48)

\* memo ids and transcripts of the stores the read-only queries are made of
Memo1 == MemoId("memo_", 1)
Memo2 == MemoId("memo_", 2)
Memo3 == MemoId("memo_", 3)
Memo4 == MemoId("memo_", 4)
Memo5 == MemoId("memo_", 5)
\* a transcript <root>/note_7.txt, which the pattern memo_*.txt does not match
Note7 == MemoId("note_", 7)

\* the four-letter word made of the letter c, and a text of such words
FourLetters(c) == <<c, c, c, c>>
RECURSIVE Sentence(_)
Sentence(letters) ==
    IF letters = <<>> THEN <<>>
    ELSE IF Len(letters) = 1 THEN FourLetters(letters[1])
    ELSE FourLetters(letters[1]) \o <<" ">> \o Sentence(Tail(letters))

\* ten words; eleven words sharing one of them (1/20 = 0.05); two of the
\* ten, in upper case and with punctuation (2/10 = 0.2); one of the ten
\* among short words (1/10 = 0.1); no word of four letters
TenWords == Sentence(<<"a","b","c","d","e","f","g","h","i","j">>)
ElevenWords == Sentence(<<"a","k","l","m","n","o","p","q","r","s","t">>)
TwoOfTen == <<"A","A","A","A",","," ","B","b","b","b",".","\n">>
OneOfTen == FourLetters("a") \o <<" ","i","s"," ","o","k">>
NoWords == <<"a","b"," ","c","d"," ","e","f">>

ThresholdTranscripts ==
    (Memo1 :> TenWords) @@ (Memo2 :> ElevenWords) @@ (Memo3 :> TwoOfTen)
    @@ (Memo4 :> OneOfTen) @@ (Memo5 :> NoWords)

\* a target of four words, two candidates at 2/4 each, one at 3/4, one at 1/4
TiedTranscripts ==
    (Memo1 :> Sentence(<<"a","b","c","d">>))
    @@ (Memo2 :> Sentence(<<"c","d">>))
    @@ (Memo3 :> Sentence(<<"a","b">>))
    @@ (Memo4 :> Sentence(<<"a","b","c">>))
    @@ (Memo5 :> Sentence(<<"a">>))

\* two transcripts of the same words, one of them not named memo_*
OtherFormTranscripts ==
    (Memo1 :> Sentence(<<"a","b">>)) @@ (Note7 :> Sentence(<<"a","b">>))
    @@ (Memo2 :> Sentence(<<"a","b","c">>))

\* the tied transcripts with memo_3.txt there but not readable
UnreadableTranscripts == (Memo3 :> Unreadable) @@ TiedTranscripts

QueryTranscripts ==
    {ThresholdTranscripts, TiedTranscripts, OtherFormTranscripts, UnreadableTranscripts}

\* FindWords of the lower-cased text s, computed once for the texts above
WordsOfInitial ==
    [s \in UNION {{Lower(t[m]) : m \in DOMAIN t} \cup {Lower(Strip(t[m])) : m \in DOMAIN t} :
                     t \in QueryTranscripts \cup {InitialTranscripts}}
     |-> FindWords(s)]
Words(s) == IF s \in DOMAIN WordsOfInitial THEN WordsOfInitial[s] ELSE FindWords(s)

\* analysis kinds, in the order load_memo_context reads them
analysis_types == <<"writing", "projects", "tasks", "personal">>

\* a stored JSON file: either it parses to a dict, or json.load raises
Parsed(d) == [parses |-> TRUE, data |-> d]
Unparsable == [parses |-> FALSE, data |-> EmptyDict]

\* a writing analysis as the extraction prompt of process_memos.py names its
\* fields (upper case) and as the lower-case readers of the repository expect
WritingUpper ==
    ("WRITING_IDEAS" :> <<RecipesIdea>>) @@ ("INTERVIEW_QUESTIONS" :> <<SeedQuestion>>)
WritingLower ==
    ("writing_ideas" :> <<RecipesIdea>>) @@ ("interview_questions" :> <<SeedQuestion>>)

\* the analysis files the store may hold when the commands start
UpperAnalyses == (<<Memo46, "writing">> :> Parsed(WritingUpper))
LowerAnalyses == (<<Memo46, "writing">> :> Parsed(WritingLower))
BrokenAnalyses == (<<Memo46, "writing">> :> Unparsable)

----------------------------------------------------------------------------
(* load_memo_context, find_related_memos, build_interview_context *)

\* A call either returns a value, returns None, or raises.
Return(v) == [kind |-> "return", value |-> v]
ReturnNone == [kind |-> "None", value |-> None]
Raise == [kind |-> "raise", value |-> None]

\* load_memo_context without the early return: a missing transcript reads as ""
load_memo_context_unchecked(memo_id) ==
    IF memo_id \in DOMAIN transcripts /\ transcripts[memo_id] = Unreadable THEN Raise
    ELSE IF \E i \in 1..Len(analysis_types) :
           /\ <<memo_id, analysis_types[i]>> \in DOMAIN analysis_files
           /\ ~analysis_files[<<memo_id, analysis_types[i]>>].parses
    THEN Raise
    ELSE Return([memo_id |-> memo_id,
                 transcript |-> IF memo_id \in DOMAIN transcripts
                                THEN Strip(transcripts[memo_id]) ELSE <<>>,
                 analyses |->
                    [t \in Range(analysis_types) |->
                        IF <<memo_id, t>> \in DOMAIN analysis_files
                        THEN analysis_files[<<memo_id, t>>].data
                        ELSE EmptyDict]])

\* load_memo_context(memo_id): None when the transcript file is absent; an
\* analysis file that is absent gives {}; a transcript that cannot be read
\* and an analysis that does not parse raise, since only FileNotFoundError
\* is caught.
load_memo_context(memo_id) ==
    IF memo_id \notin DOMAIN transcripts
    THEN ReturnNone
    ELSE IF transcripts[memo_id] = Unreadable THEN Raise
    ELSE IF \E i \in 1..Len(analysis_types) :
               /\ <<memo_id, analysis_types[i]>> \in DOMAIN analysis_files
               /\ ~analysis_files[<<memo_id, analysis_types[i]>>].parses
    THEN Raise
    ELSE Return([memo_id |-> memo_id,
                 transcript |-> Strip(transcripts[memo_id]),
                 analyses |->
                    [t \in Range(analysis_types) |->
                        IF <<memo_id, t>> \in DOMAIN analysis_files
                        THEN analysis_files[<<memo_id, t>>].data
                        ELSE EmptyDict]])

\* VOICE_MEMOS_DIR.glob("memo_*.txt"): the stems the pattern matches
GlobMemoFiles == {m \in DOMAIN transcripts : m.prefix = "memo_"}

\* the orders in which the file system may enumerate a set of files
Enumerations(S) == {f \in [1..Cardinality(S) -> S] : Range(f) = S}

RECURSIVE GCD(_, _)
GCD(a, b) == IF b = 0 THEN a ELSE GCD(b, a % b)

\* the float intersection / union, kept as a fraction in lowest terms
Ratio(n, d) == [num |-> n \div GCD(n, d), den |-> d \div GCD(n, d)]

\* a > b on two such fractions
Greater(a, b) == a.num * b.den > b.num * a.den

\* the minimum threshold 0.1 of find_related_memos
ThresholdNum == 1
ThresholdDen == 10
Threshold == [num |-> ThresholdNum, den |-> ThresholdDen]

\* the default max_related of find_related_memos
DefaultMaxRelated == 3

\* the loop scoring a candidate by the share of the target's words it holds
RECURSIVE ScanMemoFilesOverTarget(_, _, _)
ScanMemoFilesOverTarget(memo_files, memo_id, target_words) ==
    IF memo_files = <<>> THEN <<>>
    ELSE
        LET other_memo_id == Head(memo_files)
            rest == ScanMemoFilesOverTarget(Tail(memo_files), memo_id, target_words)
            other_words == Words(Lower(transcripts[other_memo_id]))
            intersection == Cardinality(target_words \cap other_words)
            similarity == Ratio(intersection, Cardinality(target_words))
            loaded == load_memo_context(other_memo_id)
        IN  IF other_memo_id = memo_id THEN rest
            ELSE IF transcripts[other_memo_id] = Unreadable THEN rest
            ELSE IF ~(Cardinality(target_words) > 0 /\ Cardinality(other_words) > 0)
            THEN rest
            ELSE IF ~Greater(similarity, Threshold) THEN rest
            ELSE IF loaded.kind = "raise" THEN rest
            ELSE <<[memo_id |-> other_memo_id,
                    similarity |-> similarity,
                    context |-> loaded.value]>> \o rest

\* the loop ending at the first candidate that raises
RECURSIVE ScanMemoFilesStopAtFailure(_, _, _)
ScanMemoFilesStopAtFailure(memo_files, memo_id, target_words) ==
    IF memo_files = <<>> THEN <<>>
    ELSE
        LET other_memo_id == Head(memo_files)
            rest == ScanMemoFilesStopAtFailure(Tail(memo_files), memo_id, target_words)
            other_words == Words(Lower(transcripts[other_memo_id]))
            intersection == Cardinality(target_words \cap other_words)
            union == Cardinality(target_words \cup other_words)
            similarity == IF union > 0 THEN Ratio(intersection, union) ELSE Ratio(0, 1)
            loaded == load_memo_context(other_memo_id)
        IN  IF other_memo_id = memo_id THEN rest
            ELSE IF transcripts[other_memo_id] = Unreadable THEN <<>>
            ELSE IF ~(Cardinality(target_words) > 0 /\ Cardinality(other_words) > 0)
            THEN rest
            ELSE IF ~Greater(similarity, Threshold) THEN rest
            ELSE IF loaded.kind = "raise" THEN <<>>
            ELSE <<[memo_id |-> other_memo_id,
                    similarity |-> similarity,
                    context |-> loaded.value]>> \o rest

\* the body of the loop over memo_files: the scores appended, in scan order
RECURSIVE ScanMemoFiles(_, _, _)
ScanMemoFiles(memo_files, memo_id, target_words) ==
    IF memo_files = <<>> THEN <<>>
    ELSE
        LET other_memo_id == Head(memo_files)
            rest == ScanMemoFiles(Tail(memo_files), memo_id, target_words)
            other_words == Words(Lower(transcripts[other_memo_id]))
            intersection == Cardinality(target_words \cap other_words)
            union == Cardinality(target_words \cup other_words)
            similarity == IF union > 0 THEN Ratio(intersection, union) ELSE Ratio(0, 1)
            loaded == load_memo_context(other_memo_id)
        IN  IF other_memo_id = memo_id THEN rest
            \* open() or read() raised inside the try block
            ELSE IF transcripts[other_memo_id] = Unreadable THEN rest
            ELSE IF ~(Cardinality(target_words) > 0 /\ Cardinality(other_words) > 0)
            THEN rest
            ELSE IF ~Greater(similarity, Threshold) THEN rest
            \* an exception inside the try block skips the candidate
            ELSE IF loaded.kind = "raise" THEN rest
            ELSE <<[memo_id |-> other_memo_id,
                    similarity |-> similarity,
                    context |-> loaded.value]>> \o rest

\* list.sort(key=similarity, reverse=True): stable, so scores of equal
\* similarity keep the order they were appended in
RECURSIVE SortBySimilarity(_)
SortBySimilarity(scores) ==
    IF scores = <<>> THEN <<>>
    ELSE
        LET sorted == SortBySimilarity(SubSeq(scores, 1, Len(scores) - 1))
            x == scores[Len(scores)]
            \* x goes after every score that is not smaller than it
            k == Cardinality({i \in 1..Len(sorted) :
                                 ~Greater(x.similarity, sorted[i].similarity)})
        IN  SubSeq(sorted, 1, k) \o <<x>> \o SubSeq(sorted, k + 1, Len(sorted))

\* find_related_memos cutting to max_related before it sorts
find_related_memos_cut_first(memo_id, max_related, memo_files) ==
    LET target_context == load_memo_context(memo_id)
    IN  IF target_context.kind = "None" THEN <<>>
        ELSE IF target_context.kind = "raise" THEN Raise
        ELSE SortBySimilarity(
                 Take(ScanMemoFiles(memo_files, memo_id,
                                    Words(Lower(target_context.value.transcript))),
                      max_related))

\* find_related_memos returning every score, without the cut to max_related
find_related_memos_uncut(memo_id, max_related, memo_files) ==
    LET target_context == load_memo_context(memo_id)
    IN  IF target_context.kind = "None" THEN <<>>
        ELSE IF target_context.kind = "raise" THEN Raise
        ELSE SortBySimilarity(
                 ScanMemoFiles(memo_files, memo_id,
                               Words(Lower(target_context.value.transcript))))

\* find_related_memos(memo_id, max_related), the glob listing memo_files
find_related_memos(memo_id, max_related, memo_files) ==
    LET target_context == load_memo_context(memo_id)
    IN  IF target_context.kind = "None" THEN <<>>
        \* the exception of load_memo_context leaves find_related_memos
        ELSE IF target_context.kind = "raise" THEN Raise
        ELSE
            LET target_words == Words(Lower(target_context.value.transcript))
                related_scores == ScanMemoFiles(memo_files, memo_id, target_words)
            IN  Take(SortBySimilarity(related_scores), max_related)

\* build_interview_context(memo_id)
build_interview_context(memo_id, memo_files) ==
    LET main_context == load_memo_context(memo_id)
    IN  IF main_context.kind # "return" THEN main_context
        ELSE
            LET analyses == main_context.value.analyses
            IN  Return([main_memo |-> main_context.value,
                        related_memos |->
                            find_related_memos(memo_id, DefaultMaxRelated, memo_files),
                        writing_ideas |->
                            Get(Get(analyses, "writing", EmptyDict), "WRITING_IDEAS", <<>>),
                        initial_questions |->
                            Get(Get(analyses, "writing", EmptyDict),
                                "INTERVIEW_QUESTIONS", <<>>),
                        projects |-> Get(analyses, "projects", EmptyDict),
                        tasks |-> Get(analyses, "tasks", EmptyDict),
                        personal_insights |-> Get(analyses, "personal", EmptyDict)])

----------------------------------------------------------------------------
(* ConversationState *)

\* ticks of the clock in one second
TicksPerSecond == 2

\* a session id that keeps the time at the clock's full resolution
StrftimeTicks(now) == [fmt |-> "%Y%m%d_%H%M%S", at |-> now]

\* datetime.now().strftime("%Y%m%d_%H%M%S"): the time cut to the second
Strftime(now) == [fmt |-> "%Y%m%d_%H%M%S", at |-> now \div TicksPerSecond]

\* datetime.now().isoformat(): the time at the clock's full resolution
IsoFormat(now) == [fmt |-> "iso", at |-> now]

\* Python truthiness of a text-or-None value
Truthy(x) == x # None /\ x # <<>>

\* ConversationState.__init__
ConversationState(memo_id, ctx, now) ==
    [memo_id |-> memo_id,
     context |-> ctx,
     conversation_history |-> <<>>,
     explored_topics |-> {},
     current_focus |-> None,
     session_id |-> Strftime(now)]

\* add_exchange inserting the exchange at the front of the history
add_exchange_front(self, question, response, topic, now) ==
    [self EXCEPT
        !.conversation_history =
            <<[question |-> question, response |-> response, topic |-> topic,
               timestamp |-> IsoFormat(now)]>> \o @]

\* add_exchange keeping the preview of the question instead of the question
add_exchange_preview(self, question, response, topic, now) ==
    [self EXCEPT
        !.conversation_history =
            Append(@, [question |-> Take(question, 100), response |-> response,
                       topic |-> topic, timestamp |-> IsoFormat(now)])]

\* add_exchange taking the answer for the topic when none is given
add_exchange_tagged(self, question, response, topic, now) ==
    LET tag == IF Truthy(topic) THEN topic ELSE response
    IN  [self EXCEPT
            !.conversation_history =
                Append(@, [question |-> question, response |-> response,
                           topic |-> tag, timestamp |-> IsoFormat(now)]),
            !.explored_topics = @ \cup {tag}]

\* ConversationState.add_exchange
add_exchange(self, question, response, topic, now) ==
    LET exchange == [question |-> question,
                     response |-> response,
                     topic |-> topic,
                     timestamp |-> IsoFormat(now)]
    IN  [self EXCEPT
            !.conversation_history = Append(@, exchange),
            !.explored_topics = IF Truthy(topic) THEN @ \cup {topic} ELSE @]

\* the exchanges a summary renders, and the length its previews are cut to
SummaryExchanges == 3
PreviewLen == 100

\* lst[:n]
FirstN(lst, n) == SubSeq(lst, 1, IF Len(lst) > n THEN n ELSE Len(lst))

\* lst[-n:]
LastN(lst, n) == SubSeq(lst, IF Len(lst) > n THEN Len(lst) - n + 1 ELSE 1, Len(lst))

\* ConversationState.get_conversation_summary: the text, as its parts
get_conversation_summary(self) ==
    IF self.conversation_history = <<>>
    THEN [text |-> "No conversation yet.", memo_id |-> self.memo_id,
          exchanges |-> 0, lines |-> <<>>]
    ELSE
        LET last == LastN(self.conversation_history, SummaryExchanges)
        IN  [text |-> "Conversation about",
             memo_id |-> self.memo_id,
             exchanges |-> Len(self.conversation_history),
             lines |-> [i \in 1..Len(last) |->
                          [n |-> i,
                           Q |-> Take(last[i].question, PreviewLen),
                           A |-> Take(last[i].response, PreviewLen)]]]

\* an output_file that also carries the time of the save
SessionPathPerSave(memo_id, session_id) ==
    [dir |-> "writing_projects", memo_id |-> memo_id,
     name |-> "interactive_interview", session_id |-> session_id,
     saved_at |-> clock]

\* the output_file of save_session
SessionPath(memo_id, session_id) ==
    [dir |-> "writing_projects", memo_id |-> memo_id,
     name |-> "interactive_interview", session_id |-> session_id]

\* session_data carrying over the context_summary of the record resumed from
SessionDataStoredSummary(self, topic_list, now) ==
    [memo_id |-> self.memo_id,
     session_id |-> self.session_id,
     timestamp |-> IsoFormat(now),
     conversation_history |-> self.conversation_history,
     explored_topics |-> topic_list,
     context_summary |->
        IF resumed # [kind |-> "none"] THEN resumed.context_summary
        ELSE [main_memo |-> self.memo_id,
              related_memos |-> [i \in 1..Len(self.context.related_memos) |->
                                   self.context.related_memos[i].memo_id],
              writing_ideas_count |-> Len(self.context.writing_ideas)]]

\* session_data holding only the exchanges the summary shows
SessionDataLastThree(self, topic_list, now) ==
    [memo_id |-> self.memo_id,
     session_id |-> self.session_id,
     timestamp |-> IsoFormat(now),
     conversation_history |->
        SubSeq(self.conversation_history,
               IF Len(self.conversation_history) > 3
               THEN Len(self.conversation_history) - 2 ELSE 1,
               Len(self.conversation_history)),
     explored_topics |-> topic_list,
     context_summary |->
        [main_memo |-> self.memo_id,
         related_memos |-> [i \in 1..Len(self.context.related_memos) |->
                              self.context.related_memos[i].memo_id],
         writing_ideas_count |-> Len(self.context.writing_ideas)]]

\* the session_data of save_session; topic_list is list(self.explored_topics),
\* which enumerates the set in an order of Python's choosing
SessionData(self, topic_list, now) ==
    [memo_id |-> self.memo_id,
     session_id |-> self.session_id,
     timestamp |-> IsoFormat(now),
     conversation_history |-> self.conversation_history,
     explored_topics |-> topic_list,
     context_summary |->
        [main_memo |-> self.memo_id,
         related_memos |-> [i \in 1..Len(self.context.related_memos) |->
                              self.context.related_memos[i].memo_id],
         writing_ideas_count |-> Len(self.context.writing_ideas)]]

\* how open(output_file, 'w') and json.dump can end
SaveOutcomes == {"ok", "open_error", "write_error"}

\* ConversationState.save_session: the session files after it.  A failed
\* open leaves the files as they are; a write that fails after the file was
\* opened leaves it truncated.
save_session(self, topic_list, now, how) ==
    LET output_file == SessionPath(self.memo_id, self.session_id)
        rest == [p \in DOMAIN session_files \ {output_file} |-> session_files[p]]
    IN  CASE how = "ok" ->
                (output_file :> Parsed(SessionData(self, topic_list, now))) @@ rest
          [] how = "write_error" -> (output_file :> Unparsable) @@ rest
          [] OTHER -> session_files

\* a restore that keeps the session id __init__ made from the clock
RestoreConversationFreshId(session_data, ctx, now) ==
    [ConversationState(session_data.memo_id, ctx, now) EXCEPT
        !.conversation_history = session_data.conversation_history,
        !.explored_topics = Range(session_data.explored_topics)]

\* resume_interview_session, "Restore conversation state"
RestoreConversation(session_data, ctx, now) ==
    [ConversationState(session_data.memo_id, ctx, now) EXCEPT
        !.session_id = session_data.session_id,
        !.conversation_history = session_data.conversation_history,
        !.explored_topics = Range(session_data.explored_topics)]

\* the memo_id of list_interview_sessions when none is given (None, or "")
NoMemoId == MemoId("", 0)

\* the decimal digits of n, as character codes
RECURSIVE Digits(_)
Digits(n) == IF n < 10 THEN <<48 + n>> ELSE Digits(n \div 10) \o <<48 + (n % 10)>>

\* the file name of a session file, as the codes its characters compare by:
\* the first letter of the memo id's prefix, the digits of its number, the
\* "_" before "interactive_interview", and the session id, whose text is
\* digits of fixed width per format and so compares as its time does
FileNameKey(path) ==
    <<IF path.memo_id.prefix = "memo_" THEN 109 ELSE 110>>
    \o Digits(path.memo_id.num) \o <<95>>
    \o <<path.session_id.at, IF path.session_id.fmt = "%Y%m%d_%H%M%S" THEN 1 ELSE 0>>

\* a < b for two sequences of codes, as Python compares strings
RECURSIVE LexLess(_, _)
LexLess(a, b) ==
    IF b = <<>> THEN FALSE
    ELSE IF a = <<>> THEN TRUE
    ELSE IF Head(a) # Head(b) THEN Head(a) < Head(b)
    ELSE LexLess(Tail(a), Tail(b))

\* sorted(session_files)
SortedPaths(S) ==
    CHOOSE f \in Enumerations(S) :
        \A i, j \in 1..Len(f) : i < j => LexLess(FileNameKey(f[i]), FileNameKey(f[j]))

\* list_interview_sessions that gives up at the first file it cannot load
list_interview_sessions_strict(memo_id) ==
    LET matching == {q \in DOMAIN session_files : memo_id = NoMemoId \/ q.memo_id = memo_id}
        sorted == SortedPaths(matching)
    IN  IF \E q \in matching : ~session_files[q].parses THEN <<>>
        ELSE [i \in 1..Len(sorted) |->
                 [file |-> sorted[i],
                  memo_id |-> session_files[sorted[i]].data.memo_id,
                  session_id |-> session_files[sorted[i]].data.session_id,
                  exchanges |-> Len(session_files[sorted[i]].data.conversation_history),
                  timestamp |-> session_files[sorted[i]].data.timestamp]]

\* list_interview_sessions(memo_id): one entry for each file the pattern
\* matches and json.load accepts, in the order of the sorted paths
list_interview_sessions(memo_id) ==
    LET matching == {q \in DOMAIN session_files : memo_id = NoMemoId \/ q.memo_id = memo_id}
        loaded == SelectSeq(SortedPaths(matching), LAMBDA q : session_files[q].parses)
    IN  [i \in 1..Len(loaded) |->
            [file |-> loaded[i],
             memo_id |-> session_files[loaded[i]].data.memo_id,
             session_id |-> session_files[loaded[i]].data.session_id,
             exchanges |-> Len(session_files[loaded[i]].data.conversation_history),
             timestamp |-> session_files[loaded[i]].data.timestamp]]

----------------------------------------------------------------------------
(* The text-generation call and the prompts *)

\* what the HTTP exchange of call_ollama can end in: a failure (connection
\* error, timeout, bad status, bad body), or a body carrying a response text
Failure == [ok |-> FALSE, response |-> <<>>]
Completion(text) == [ok |-> TRUE, response |-> text]

\* call_ollama: the response text, or None when anything raised
call_ollama(reply) == IF reply.ok THEN reply.response ELSE None

\* the fallback questions of the three call sites
FallbackOpening ==
    <<"T","e","l","l"," ","m","e"," ","m","o","r","e"," ","a","b","o","u","t"," ","t",
      "h","e"," ","i","d","e","a","s"," ","i","n"," ","t","h","i","s"," ","m","e","m",
      "o"," ","-"," ","w","h","a","t"," ","e","x","c","i","t","e","s"," ","y","o","u",
      " ","m","o","s","t"," ","a","b","o","u","t"," ","d","e","v","e","l","o","p","i",
      "n","g"," ","t","h","e","m","?">>

FallbackResume ==
    <<"L","e","t","'","s"," ","c","o","n","t","i","n","u","e"," ","o","u","r"," ","c",
      "o","n","v","e","r","s","a","t","i","o","n"," ","-"," ","w","h","a","t"," ","w",
      "o","u","l","d"," ","y","o","u"," ","l","i","k","e"," ","t","o"," ","e","x","p",
      "l","o","r","e"," ","f","u","r","t","h","e","r"," ","f","r","o","m"," ","o","u",
      "r"," ","p","r","e","v","i","o","u","s"," ","d","i","s","c","u","s","s","i","o",
      "n","?">>

FallbackFollowup ==
    <<"T","h","a","t","'","s"," ","i","n","t","e","r","e","s","t","i","n","g","!"," ",
      "C","a","n"," ","y","o","u"," ","e","l","a","b","o","r","a","t","e"," ","o","n",
      " ","t","h","a","t"," ","i","d","e","a","?">>

Fallback(call_site) ==
    CASE call_site = "opening" -> FallbackOpening
      [] call_site = "resume" -> FallbackResume
      [] OTHER -> FallbackFollowup

\* the assignment without its "if not opening_question" guard
OrFallbackNever(result, fallback) == result

\* the assignment testing for None only, so that "" stays
OrFallbackNoneOnly(result, fallback) == IF result # None THEN result ELSE fallback

\* "opening_question = call_ollama(...); if not opening_question: ... = fallback"
OrFallback(result, fallback) == IF Truthy(result) THEN result ELSE fallback

\* lengths of the excerpts the prompts and the context command cut
RelatedExcerptLen == 200
ContextExcerptLen == 300
InsightExcerptLen == 200

\* [r['memo_id'] for r in context['related_memos']]
RelatedIds(ctx) == [i \in 1..Len(ctx.related_memos) |-> ctx.related_memos[i].memo_id]

NoRequest == [kind |-> "none"]

\* an opening prompt that names the related memos without their excerpts
opening_prompt_ids_only(ctx) ==
    [kind |-> "opening",
     transcript |-> ctx.main_memo.transcript,
     writing_ideas |-> ctx.writing_ideas,
     initial_questions |-> ctx.initial_questions,
     related_content |->
        [i \in 1..Len(ctx.related_memos) |->
            [memo_id |-> ctx.related_memos[i].memo_id, excerpt |-> <<>>]]]

\* opening_prompt of interactive_interview_mode, as its interpolated parts
opening_prompt(ctx) ==
    [kind |-> "opening",
     transcript |-> ctx.main_memo.transcript,
     writing_ideas |-> ctx.writing_ideas,
     initial_questions |-> ctx.initial_questions,
     related_content |->
        [i \in 1..Len(ctx.related_memos) |->
            [memo_id |-> ctx.related_memos[i].memo_id,
             excerpt |-> Take(ctx.related_memos[i].context.transcript,
                              RelatedExcerptLen)]]]

\* continue_prompt of resume_interview_session
continue_prompt(ctx, conv) ==
    [kind |-> "resume",
     transcript |-> ctx.main_memo.transcript,
     history |-> get_conversation_summary(conv)]

\* followup_prompt of both drivers
followup_prompt(ctx, conv, response) ==
    [kind |-> "followup",
     transcript |-> ctx.main_memo.transcript,
     so_far |-> get_conversation_summary(conv),
     latest_response |-> response,
     writing_ideas |-> ctx.writing_ideas,
     related_memos |-> RelatedIds(ctx),
     projects |-> ctx.projects]

\* insights_prompt of interactive_interview_mode
insights_prompt(ctx, conv) ==
    [kind |-> "insights",
     transcript |-> ctx.main_memo.transcript,
     full_conversation |->
        [i \in 1..Len(conv.conversation_history) |->
            [Q |-> Take(conv.conversation_history[i].question, InsightExcerptLen),
             A |-> Take(conv.conversation_history[i].response, InsightExcerptLen)]]]

\* the insights_file of interactive_interview_mode
InsightsPath(memo_id, session_id) ==
    [dir |-> "writing_projects", memo_id |-> memo_id,
     name |-> "interview_insights", session_id |-> session_id]

\* the conversation must hold more than this many exchanges for insights
InsightsMinExchanges == 2

----------------------------------------------------------------------------
(* Inputs the model draws from *)

\* a question the generator may return
GeneratedQuestion ==
    <<"W","h","i","c","h"," ","r","e","c","i","p","e","?">>

Replies == {Failure, Completion(<<>>), Completion(GeneratedQuestion)}

\* lines the user may type
InputLines ==
    { <<"q","u","i","t">>, <<" ","Q","u","i","T">>,
      <<"S","U","M","M","A","R","Y">>, <<"c","o","n","t","e","x","t","\t">>,
      <<>>, <<" "," ">>,
      <<"S","o","u","p">>, <<" ","S","o","u","p"," ">> }

\* session ids and records that exist before the first command
OldSessionId == [fmt |-> "%Y%m%d_%H%M", at |-> 0]
OldStamp == [fmt |-> "iso", at |-> 0]
TopicFamily == <<"f","a","m","i","l","y">>
TopicFood == <<"f","o","o","d">>
OldQuestion == <<"W","h","y","?">>
OldAnswer == <<" ","J","o","y">>

OldRecord(memo_id) ==
    [memo_id |-> memo_id,
     session_id |-> OldSessionId,
     timestamp |-> OldStamp,
     conversation_history |->
        << [question |-> OldQuestion, response |-> OldAnswer,
            topic |-> TopicFamily, timestamp |-> OldStamp],
           [question |-> FallbackFollowup, response |-> OldQuestion,
            topic |-> None, timestamp |-> OldStamp] >>,
     explored_topics |-> <<TopicFood, TopicFamily>>,
     context_summary |->
        [main_memo |-> memo_id, related_memos |-> <<Memo48>>,
         writing_ideas_count |-> 7]]

NoSessions == [p \in {} |-> Unparsable]
OldSession(memo_id) ==
    (SessionPath(memo_id, OldSessionId) :> Parsed(OldRecord(memo_id)))

\* the times, in ticks, at which the first command may find the clock
InitialClocks == {0, 1}

\* the stores the commands may start from
InitialStores ==
    { [analyses |-> UpperAnalyses,
       sessions |-> OldSession(Memo46) @@ OldSession(Memo9999)],
      [analyses |-> LowerAnalyses, sessions |-> NoSessions],
      [analyses |-> BrokenAnalyses, sessions |-> OldSession(Memo46)] }

\* memo ids the interview command is given
InterviewTargets == {Memo46, Memo9999}

\* a session file path that does not exist
MissingSession == SessionPath(Memo47, OldSessionId)

----------------------------------------------------------------------------
(* The commands *)

NoContext == [kind |-> "none"]
NoConversation == [kind |-> "none"]
NoResume == [kind |-> "none"]
NoCall == [kind |-> "none"]
NoReturn == [kind |-> "none"]

Init ==
    /\ clock \in InitialClocks
    /\ runs = 0
    /\ transcripts = InitialTranscripts
    /\ \E store \in InitialStores :
          /\ analysis_files = store.analyses
          /\ session_files = store.sessions
    /\ insight_files = [p \in {} |-> <<>>]
    /\ pc = "idle"
    /\ mode = "none"
    /\ site = "none"
    /\ context = NoContext
    /\ conversation = NoConversation
    /\ opening_question = None
    /\ request = NoRequest
    /\ shown = None
    /\ entered = <<>>
    /\ answered = 0
    /\ resumed = NoResume
    /\ save_status = "none"
    /\ outcome = "none"
    /\ call = NoCall
    /\ returned = NoReturn

\* the process of a command ends: its variables are gone
ProcessEnds(how) ==
    /\ pc' = "idle"
    /\ outcome' = how
    /\ site' = "none"
    /\ context' = NoContext
    /\ conversation' = NoConversation
    /\ opening_question' = None
    /\ request' = NoRequest
    /\ shown' = None
    /\ entered' = <<>>
    /\ resumed' = NoResume

\* a command that returns, or dies, before a ConversationState exists
EndEarly(m, how) ==
    /\ pc' = "idle"
    /\ mode' = m
    /\ outcome' = how
    /\ site' = "none"
    /\ context' = NoContext
    /\ conversation' = NoConversation
    /\ opening_question' = None
    /\ request' = NoRequest
    /\ shown' = None
    /\ entered' = <<>>
    /\ resumed' = NoResume
    /\ save_status' = "none"
    /\ UNCHANGED <<session_files, insight_files, answered>>

\* a driver that built its context and state and now asks for its first question
BeginDialogue(m, ctx, conv, prompt, call_site, from) ==
    /\ pc' = "generating"
    /\ mode' = m
    /\ outcome' = "running"
    /\ site' = call_site
    /\ context' = ctx
    /\ conversation' = conv
    /\ opening_question' = None
    /\ request' = prompt
    /\ shown' = None
    /\ entered' = <<>>
    /\ resumed' = from
    /\ save_status' = "none"
    /\ UNCHANGED <<session_files, insight_files, answered>>

\* interactive_interview_mode(memo_id), up to the call for the opening question
StartInterview(memo_id) ==
    /\ pc = "idle"
    /\ runs < MaxRuns
    /\ runs' = runs + 1
    /\ clock' = clock + 1
    /\ \E memo_files \in Enumerations(GlobMemoFiles) :
       LET built == build_interview_context(memo_id, memo_files)
       IN  IF built.kind = "None" THEN EndEarly("new", "not_found")
           ELSE IF built.kind = "raise" THEN EndEarly("new", "crashed")
           ELSE BeginDialogue("new", built.value,
                              ConversationState(memo_id, built.value, clock'),
                              opening_prompt(built.value), "opening", NoResume)
    /\ UNCHANGED <<transcripts, analysis_files, call, returned>>

\* resume_interview_session(session_file), up to the call for the resumption
\* question
ResumeSession(session_file) ==
    /\ pc = "idle"
    /\ runs < MaxRuns
    /\ runs' = runs + 1
    /\ clock' = clock + 1
    /\ \E memo_files \in Enumerations(GlobMemoFiles) :
       IF session_file \notin DOMAIN session_files \/ ~session_files[session_file].parses
       THEN EndEarly("resume", "load_error")
       ELSE
           LET session_data == session_files[session_file].data
               built == build_interview_context(session_data.memo_id, memo_files)
               restored == RestoreConversation(session_data, built.value, clock')
           IN  IF built.kind = "None" THEN EndEarly("resume", "not_found")
               ELSE IF built.kind = "raise" THEN EndEarly("resume", "crashed")
               ELSE BeginDialogue("resume", built.value, restored,
                                  continue_prompt(built.value, restored), "resume",
                                  session_data)
    /\ UNCHANGED <<transcripts, analysis_files, call, returned>>

\* a driver that gives up when call_ollama returns None
GenerationReturnsFatal(reply) ==
    /\ pc = "generating"
    /\ IF reply.ok
       THEN /\ opening_question' = OrFallback(call_ollama(reply), Fallback(site))
            /\ shown' = opening_question'
            /\ request' = NoRequest
            /\ pc' = "awaiting"
            /\ UNCHANGED <<site, context, conversation, entered, resumed, outcome>>
       ELSE ProcessEnds("crashed")
    /\ UNCHANGED <<clock, runs, transcripts, analysis_files, session_files,
                   insight_files, mode, answered, save_status, call, returned>>

\* call_ollama returns to the driver, which settles the question and prints it
GenerationReturns(reply) ==
    /\ pc = "generating"
    /\ opening_question' = OrFallback(call_ollama(reply), Fallback(site))
    /\ shown' = opening_question'
    /\ request' = NoRequest
    /\ pc' = "awaiting"
    /\ UNCHANGED <<clock, runs, transcripts, analysis_files, session_files,
                   insight_files, mode, site, context, conversation, entered,
                   answered, resumed, save_status, outcome, call, returned>>

\* the reserved commands
QuitCommand == <<"q","u","i","t">>
SummaryCommand == <<"s","u","m","m","a","r","y">>
ContextCommand == <<"c","o","n","t","e","x","t">>

\* a loop exit that leaves without saving
TerminateWithoutSave ==
    /\ ProcessEnds("done")
    /\ UNCHANGED <<session_files, save_status, answered>>

\* a loop exit that asks for insights whatever the number of exchanges
TerminateInsightsAlways ==
    \E how \in SaveOutcomes :
    \E topic_list \in Enumerations(conversation.explored_topics) :
        /\ session_files' = save_session(conversation, topic_list, clock, how)
        /\ IF how # "ok"
           THEN /\ save_status' = "failed"
                /\ ProcessEnds("crashed")
           ELSE /\ save_status' = "saved"
                /\ IF mode = "new"
                   THEN /\ pc' = "insights"
                        /\ request' = insights_prompt(context, conversation)
                        /\ site' = "insights"
                        /\ UNCHANGED <<outcome, context, conversation,
                                       opening_question, shown, entered, resumed>>
                   ELSE ProcessEnds("done")
        /\ UNCHANGED answered

\* a loop exit that asks for insights in a resumed session as in a new one
TerminateInsightsAnyMode ==
    \E how \in SaveOutcomes :
    \E topic_list \in Enumerations(conversation.explored_topics) :
        /\ session_files' = save_session(conversation, topic_list, clock, how)
        /\ IF how # "ok"
           THEN /\ save_status' = "failed"
                /\ ProcessEnds("crashed")
           ELSE /\ save_status' = "saved"
                /\ IF Len(conversation.conversation_history) > InsightsMinExchanges
                   THEN /\ pc' = "insights"
                        /\ request' = insights_prompt(context, conversation)
                        /\ site' = "insights"
                        /\ UNCHANGED <<outcome, context, conversation,
                                       opening_question, shown, entered, resumed>>
                   ELSE ProcessEnds("done")
        /\ UNCHANGED answered

\* the loop's exit: save_session, and in a new interview the insights request
Terminate ==
    \E how \in SaveOutcomes :
    \E topic_list \in Enumerations(conversation.explored_topics) :
        /\ session_files' = save_session(conversation, topic_list, clock, how)
        /\ IF how # "ok"
           THEN /\ save_status' = "failed"
                /\ ProcessEnds("crashed")
           ELSE /\ save_status' = "saved"
                /\ IF /\ mode = "new"
                      /\ Len(conversation.conversation_history) > InsightsMinExchanges
                   THEN /\ pc' = "insights"
                        /\ request' = insights_prompt(context, conversation)
                        /\ site' = "insights"
                        /\ UNCHANGED <<outcome, context, conversation,
                                       opening_question, shown, entered, resumed>>
                   ELSE ProcessEnds("done")
        /\ UNCHANGED answered

\* a pass that answers a command by asking the generator for a new question
CommandPassAsking ==
    /\ request' = followup_prompt(context, conversation, <<>>)
    /\ site' = "followup"
    /\ pc' = "generating"
    /\ UNCHANGED <<session_files, context, conversation, opening_question, shown,
                   entered, answered, resumed, save_status, outcome>>

\* the summary and context commands and the empty line: print, and ask again
CommandPass ==
    UNCHANGED <<session_files, context, conversation, opening_question, shown,
                entered, answered, resumed, request, site, pc, save_status,
                outcome>>

\* a pass that sends the follow-up request before it appends the exchange
AnswerRequestFirst(user_response) ==
    /\ answered < MaxAnswers
    /\ answered' = answered + 1
    /\ request' = followup_prompt(context, conversation, user_response)
    /\ conversation' = add_exchange(conversation, opening_question, user_response,
                                    None, clock)
    /\ entered' = Append(entered, [question |-> shown, response |-> user_response])
    /\ site' = "followup"
    /\ pc' = "generating"
    /\ UNCHANGED <<session_files, context, opening_question, shown, resumed,
                   save_status, outcome>>

\* any other line: add_exchange, then the call for the follow-up question
Answer(user_response) ==
    /\ answered < MaxAnswers
    /\ answered' = answered + 1
    /\ conversation' = add_exchange(conversation, opening_question, user_response,
                                    None, clock)
    /\ entered' = Append(entered, [question |-> shown, response |-> user_response])
    /\ request' = followup_prompt(context, conversation', user_response)
    /\ site' = "followup"
    /\ pc' = "generating"
    /\ UNCHANGED <<session_files, context, opening_question, shown, resumed,
                   save_status, outcome>>

\* a loop pass that compares the commands case-sensitively
ReadInputCaseSensitive(line) ==
    /\ pc = "awaiting"
    /\ LET user_response == Strip(line)
       IN  IF user_response = QuitCommand THEN Terminate
           ELSE IF user_response = SummaryCommand THEN CommandPass
           ELSE IF user_response = ContextCommand THEN CommandPass
           ELSE IF user_response = <<>> THEN CommandPass
           ELSE Answer(user_response)
    /\ UNCHANGED <<clock, runs, transcripts, analysis_files, insight_files, mode,
                   call, returned>>

\* one pass of the "while True" loop on one line of input
ReadInput(line) ==
    /\ pc = "awaiting"
    /\ LET user_response == Strip(line)
       IN  IF Lower(user_response) = QuitCommand THEN Terminate
           ELSE IF Lower(user_response) = SummaryCommand THEN CommandPass
           ELSE IF Lower(user_response) = ContextCommand THEN CommandPass
           ELSE IF user_response = <<>> THEN CommandPass
           ELSE Answer(user_response)
    /\ UNCHANGED <<clock, runs, transcripts, analysis_files, insight_files, mode,
                   call, returned>>

\* call_ollama returns the insights, which are written next to the sessions
InsightsReturn(reply, written) ==
    /\ pc = "insights"
    /\ LET insights == call_ollama(reply)
       IN  /\ IF Truthy(insights) /\ written
              THEN insight_files' =
                      (InsightsPath(conversation.memo_id, conversation.session_id) :>
                          [session |-> conversation.session_id, insights |-> insights])
                      @@ insight_files
              ELSE UNCHANGED insight_files
           /\ ProcessEnds(IF Truthy(insights) /\ ~written THEN "crashed" ELSE "done")
    /\ UNCHANGED <<clock, runs, transcripts, analysis_files, session_files, mode,
                   answered, save_status, call, returned>>

Next ==
    \/ \E memo_id \in InterviewTargets : StartInterview(memo_id)
    \/ \E session_file \in DOMAIN session_files \cup {MissingSession} :
          ResumeSession(session_file)
    \/ \E reply \in Replies : GenerationReturns(reply)
    \/ \E line \in InputLines : ReadInput(line)
    \/ \E reply \in Replies, written \in BOOLEAN : InsightsReturn(reply, written)

Spec == Init /\ [][Next]_vars

\* The commands under the conditions of their surroundings: a call of
\* call_ollama returns, since requests.post returns or raises within its
\* timeout of 300 seconds and every exception is caught; and the user, asked
\* again and again, at some time enters quit.
UserQuits ==
    \E line \in InputLines : Lower(Strip(line)) = QuitCommand /\ ReadInput(line)

\* the time within its second at which the first command starts decides
\* nothing about the loop, so these behaviours start at the full second
LiveInit == Init /\ clock = 0

LiveSpec ==
    /\ LiveInit /\ [][Next]_vars
    /\ WF_vars(\E reply \in Replies : GenerationReturns(reply))
    /\ SF_vars(UserQuits)

\* the exit status of the process: main calls the command and returns, and
\* no sys.exit is anywhere, so the status is 0 unless an exception left main
ExitStatus(how) == IF how = "crashed" THEN 1 ELSE 0

----------------------------------------------------------------------------
(* The read-only queries, made of a store that no command is changing *)

\* largest max_related a query is made with
MaxK == 4

NoAnalyses == [k \in {} |-> Unparsable]

\* a session file that json.load rejects
BrokenSession == (SessionPath(Memo47, OldSessionId) :> Unparsable)

\* the stores the queries are made of
QueryStores ==
    { [transcripts |-> ThresholdTranscripts, analyses |-> NoAnalyses,
       sessions |-> OldSession(Memo46) @@ BrokenSession @@ OldSession(Memo9999)],
      [transcripts |-> TiedTranscripts, analyses |-> NoAnalyses,
       sessions |-> NoSessions],
      [transcripts |-> TiedTranscripts,
       analyses |-> (<<Memo4, "tasks">> :> Unparsable),
       sessions |-> BrokenSession],
      [transcripts |-> OtherFormTranscripts, analyses |-> NoAnalyses,
       sessions |-> OldSession(Memo46)],
      [transcripts |-> UnreadableTranscripts, analyses |-> NoAnalyses,
       sessions |-> NoSessions] }

QueryInit ==
    /\ clock = 0
    /\ runs = 0
    /\ \E store \in QueryStores :
          /\ transcripts = store.transcripts
          /\ analysis_files = store.analyses
          /\ session_files = store.sessions
    /\ insight_files = [q \in {} |-> <<>>]
    /\ pc = "idle"
    /\ mode = "none"
    /\ site = "none"
    /\ context = NoContext
    /\ conversation = NoConversation
    /\ opening_question = None
    /\ request = NoRequest
    /\ shown = None
    /\ entered = <<>>
    /\ answered = 0
    /\ resumed = NoResume
    /\ save_status = "none"
    /\ outcome = "none"
    /\ call = NoCall
    /\ returned = NoReturn

\* a query that keeps what it built in a file next to the analyses
QueryFrameCaching ==
    /\ analysis_files' = (<<call'.memo_id, "context">> :> Unparsable) @@ analysis_files
    /\ UNCHANGED <<clock, runs, transcripts, session_files,
                   insight_files, pc, mode, site, context, conversation,
                   opening_question, request, shown, entered, answered, resumed,
                   save_status, outcome>>

\* a query reads the store and leaves everything as it was; each behaviour
\* makes one query, of a store and with arguments of its choice
QueryFrame ==
    UNCHANGED <<clock, runs, transcripts, analysis_files, session_files,
                insight_files, pc, mode, site, context, conversation,
                opening_question, request, shown, entered, answered, resumed,
                save_status, outcome>>

\* find_related_memos(memo_id, max_related), the glob listing the files in
\* one of the orders the file system may give
FindRelated(memo_id, max_related) ==
    /\ call = NoCall
    /\ \E memo_files \in Enumerations(GlobMemoFiles) :
          /\ call' = [kind |-> "find_related_memos", memo_id |-> memo_id,
                       max_related |-> max_related, memo_files |-> memo_files]
          /\ returned' = IF load_memo_context(memo_id).kind = "raise" THEN Raise
                          ELSE Return(find_related_memos(memo_id, max_related,
                                                         memo_files))
    /\ QueryFrame

\* list_interview_sessions(memo_id); memo_id is NoMemoId for every memo
ListSessions(memo_id) ==
    /\ call = NoCall
    /\ call' = [kind |-> "list_interview_sessions", memo_id |-> memo_id]
    /\ returned' = Return(list_interview_sessions(memo_id))
    /\ QueryFrame

\* build_interview_context(memo_id): the context, None, or an exception
BuildContext(memo_id) ==
    /\ call = NoCall
    /\ \E memo_files \in Enumerations(GlobMemoFiles) :
          /\ call' = [kind |-> "build_interview_context", memo_id |-> memo_id,
                       memo_files |-> memo_files]
          /\ returned' = build_interview_context(memo_id, memo_files)
    /\ QueryFrame

QueryNext ==
    \/ \E memo_id \in DOMAIN transcripts \cup {Memo9999}, max_related \in 0..MaxK :
          FindRelated(memo_id, max_related)
    \/ \E memo_id \in DOMAIN transcripts \cup {Memo9999} : BuildContext(memo_id)
    \/ \E memo_id \in {NoMemoId, Memo46, Memo47, Memo48, Memo9999} : ListSessions(memo_id)
    \* a resume that ends before its dialogue (these stores hold no transcript
    \* for the memos of their session records), made before the query
    \/ /\ call = NoCall /\ runs = 0
       /\ \E session_file \in DOMAIN session_files : ResumeSession(session_file)

QuerySpec == QueryInit /\ [][QueryNext]_vars

----------------------------------------------------------------------------
(* Properties *)

\* a driver holds a ConversationState
Running == pc \in {"generating", "awaiting", "insights"}

\* the exchanges a run started with: those of the record it resumed, or none
BaseHistory == IF mode = "resume" THEN resumed.conversation_history ELSE <<>>

\* the session files a step wrote: created, or left with another content
Written ==
    {p \in DOMAIN session_files' :
        p \notin DOMAIN session_files \/ session_files'[p] # session_files[p]}

\* a step on which save_session ran to its end
SaveSucceeds == pc = "awaiting" /\ save_status' = "saved"

\* C1 as stated: every successful save creates a new file and leaves every
\* file written before as it was, also the save that follows a resume.
C1_SaveNeverOverwrites ==
    [][SaveSucceeds =>
          /\ \A p \in DOMAIN session_files :
                p \in DOMAIN session_files' /\ session_files'[p] = session_files[p]
          /\ DOMAIN session_files' # DOMAIN session_files]_vars

\* C1 amended: a successful save writes the one file whose path is fixed by
\* the memo id and the session id.  No file is removed and no file of another
\* memo or session changes; the store never holds two files for one memo and
\* session; and when a file of that memo and session exists already, as after
\* a resume, the save replaces its content in place by the record of the
\* running conversation.
C1_SaveWritesFileOfSession ==
    [][SaveSucceeds =>
          /\ DOMAIN session_files \subseteq DOMAIN session_files'
          /\ \A p \in Written :
                /\ p.memo_id = conversation.memo_id
                /\ p.session_id = conversation.session_id
          /\ \A p, q \in DOMAIN session_files' :
                (p.memo_id = q.memo_id /\ p.session_id = q.session_id) => p = q
          /\ \E p \in DOMAIN session_files' :
                /\ p.memo_id = conversation.memo_id
                /\ p.session_id = conversation.session_id
                /\ session_files'[p].parses
                /\ session_files'[p].data.conversation_history
                       = conversation.conversation_history
          /\ (\E p \in DOMAIN session_files :
                 /\ p.memo_id = conversation.memo_id
                 /\ p.session_id = conversation.session_id)
             => DOMAIN session_files' = DOMAIN session_files]_vars

\* C1 witness: a resumed session was saved over the file it was resumed from,
\* with one exchange more than that file held.
C1_Witness ==
    /\ mode = "resume" /\ save_status = "saved" /\ pc = "idle"
    /\ \E p \in DOMAIN session_files :
          /\ p.session_id = OldSessionId
          /\ session_files[p].parses
          /\ Len(session_files[p].data.conversation_history) = 3

\* C2: restoring the record that save_session writes for the running
\* conversation, whatever order list() gives the topics, yields the same
\* session id, the same exchange sequence and the same explored-topics set.
C2_RoundTrip ==
    Running =>
        \A topic_list \in Enumerations(conversation.explored_topics) :
            LET files == save_session(conversation, topic_list, clock, "ok")
                stored == CHOOSE p \in DOMAIN files :
                             /\ p.memo_id = conversation.memo_id
                             /\ p.session_id = conversation.session_id
                back == RestoreConversation(files[stored].data, context, clock + 1)
            IN  /\ files[stored].parses
                /\ back.session_id = conversation.session_id
                /\ back.conversation_history = conversation.conversation_history
                /\ back.explored_topics = conversation.explored_topics

\* C2 witness: a conversation with two explored topics and four exchanges
C2_Witness ==
    /\ pc = "awaiting"
    /\ Cardinality(conversation.explored_topics) = 2
    /\ Len(conversation.conversation_history) = 4

\* C3: while a driver runs its session id never changes; a resumed driver
\* starts with the session id of the record it resumed; and the record a
\* resumed driver saves carries that same session id.
C3_SessionIdStable ==
    [][/\ (Running /\ pc' \in {"generating", "awaiting", "insights"})
             => conversation'.session_id = conversation.session_id
       /\ (pc = "idle" /\ pc' = "generating" /\ mode' = "resume")
             => conversation'.session_id = resumed'.session_id
       /\ (SaveSucceeds /\ mode = "resume")
             => /\ Written # {}
                /\ \A p \in Written :
                      session_files'[p].data.session_id = resumed.session_id]_vars

\* C3 witness: the record of a resumed session was saved under the old
\* session id after a later command had started
C3_Witness ==
    /\ mode = "resume" /\ save_status = "saved" /\ pc = "idle"
    /\ \E p \in DOMAIN session_files :
          /\ session_files[p].parses
          /\ session_files[p].data.session_id = OldSessionId
          /\ session_files[p].data.timestamp # OldStamp
          /\ Len(session_files[p].data.conversation_history) = 4

\* the exchanges of the answers entered in this run, as the history holds them
EnteredMatches(history) ==
    /\ Len(history) = Len(BaseHistory) + Len(entered)
    /\ \A i \in 1..Len(entered) :
          /\ history[Len(BaseHistory) + i].question = entered[i].question
          /\ history[Len(BaseHistory) + i].response = entered[i].response

\* C4: the history only grows at its end: across every step of a running
\* driver the old history is a prefix of the new one; it always is the
\* resumed record's history followed by the answers entered, in order; and
\* that is the history of the record a successful save writes.
C4_AppendOnly ==
    [][/\ (Running /\ pc' \in {"generating", "awaiting", "insights"})
             => IsPrefix(conversation.conversation_history,
                         conversation'.conversation_history)
       /\ Running
             => /\ IsPrefix(BaseHistory, conversation.conversation_history)
                /\ EnteredMatches(conversation.conversation_history)
       /\ SaveSucceeds
             => \A p \in Written :
                   /\ IsPrefix(BaseHistory, session_files'[p].data.conversation_history)
                   /\ EnteredMatches(session_files'[p].data.conversation_history)]_vars

\* C4 witness: a resumed driver holds the two exchanges of its record and
\* two new ones
C4_Witness ==
    /\ mode = "resume" /\ pc = "generating"
    /\ Len(resumed.conversation_history) = 2
    /\ Len(entered) = 2

\* the reserved commands, in the letter cases the input lines use
IsReserved(text) ==
    Lower(text) \in {<<"q","u","i","t">>, <<"s","u","m","m","a","r","y">>,
                     <<"c","o","n","t","e","x","t">>}

\* the step appends nothing to the history
AppendsNothing ==
    \/ pc' = "idle"
    \/ conversation'.conversation_history = conversation.conversation_history

\* the step appends exactly one exchange, whose answer is text
AppendsAnswer(text) ==
    /\ pc' # "idle"
    /\ Len(conversation'.conversation_history)
          = Len(conversation.conversation_history) + 1
    /\ IsPrefix(conversation.conversation_history,
                conversation'.conversation_history)
    /\ conversation'.conversation_history[Len(conversation'.conversation_history)]
          .response = text

\* C5 as stated: a line equal to a reserved command in any letter case
\* appends nothing, and every other non-empty line appends exactly one
\* exchange whose answer is the line.
C5_LineDecidesExchange ==
    [][\A line \in InputLines :
          ReadInput(line) =>
             IF IsReserved(line) THEN AppendsNothing
             ELSE IF line # <<>> THEN AppendsAnswer(line)
             ELSE TRUE]_vars

\* the line without the white space around it, told by its first and last
\* characters
Trimmed(line, text) ==
    /\ \E i \in 0..Len(line), j \in 0..Len(line) :
          /\ i + j <= Len(line)
          /\ text = SubSeq(line, i + 1, Len(line) - j)
          /\ \A k \in (1..i) \cup ((Len(line) - j + 1)..Len(line)) :
                line[k] \in {" ", "\t", "\n"}
    /\ text = <<>> \/ (text[1] \notin {" ", "\t", "\n"}
                       /\ text[Len(text)] \notin {" ", "\t", "\n"})

\* each input line without the white space around it
Stripped ==
    [line \in InputLines |->
        CHOOSE text \in {SubSeq(line, i, j) : i \in 1..Len(line) + 1, j \in 0..Len(line)} :
            Trimmed(line, text)]

\* C5 amended: the driver decides on the line with the white space around it
\* stripped.  A stripped line equal to a reserved command in any letter case
\* appends nothing, an empty stripped line appends nothing, and every other
\* line appends exactly one exchange whose answer is the stripped line.
C5_StrippedLineDecidesExchange ==
    [][\A line \in InputLines :
          ReadInput(line) =>
             IF IsReserved(Stripped[line]) \/ Stripped[line] = <<>>
             THEN AppendsNothing
             ELSE AppendsAnswer(Stripped[line])]_vars

\* C5 witness: the answer "Soup" was appended and the follow-up question is
\* being generated
C5_Witness ==
    /\ pc = "generating" /\ site = "followup"
    /\ conversation.conversation_history[Len(conversation.conversation_history)]
          .response = <<"S","o","u","p">>

\* C6: every exchange a driver appends holds the question that was on the
\* screen when its answer was typed, unedited, and the k-th exchange appended
\* pairs the k-th such question with the k-th answer.
C6_QuestionIsTheOneShown ==
    /\ pc = "awaiting" => shown = opening_question
    /\ Running => EnteredMatches(conversation.conversation_history)

\* C6 witness: two answers were entered to two different questions, the
\* first of them longer than a summary preview
C6_Witness ==
    /\ pc = "awaiting"
    /\ Len(entered) = 2
    /\ Len(entered[1].question) > PreviewLen
    /\ entered[1].question # entered[2].question

\* C7: a generation call never ends the session and never touches the
\* history; when the call fails the question becomes the fallback of its
\* call site and the driver waits for input.
C7_GenerationFailureNotFatal ==
    [][pc = "generating" =>
          /\ pc' = "awaiting"
          /\ outcome' = "running"
          /\ conversation' = conversation
          /\ GenerationReturns(Failure) =>
                /\ site = "opening" =>
                      opening_question' = FallbackOpening /\ mode = "new"
                /\ site = "resume" =>
                      opening_question' = FallbackResume /\ mode = "resume"
                /\ site = "followup" => opening_question' = FallbackFollowup
                /\ site \in {"opening", "resume", "followup"}
                /\ shown' = opening_question']_vars

\* C7 witness: three generation calls in a row failed, and the driver waits
\* for input with the follow-up fallback
C7_Witness ==
    /\ pc = "awaiting"
    /\ opening_question = FallbackFollowup
    /\ Len(entered) = 2
    /\ entered[1].question = FallbackOpening
    /\ entered[2].question = FallbackFollowup

\* C8: a driver leaves the input loop only on quit, and the step that leaves
\* it has run save_session, which wrote the record or failed.
C8_QuitPersists ==
    [][/\ \A line \in InputLines :
             (ReadInput(line) /\ Lower(Strip(line)) = <<"q","u","i","t">>)
                => save_status' \in {"saved", "failed"}
       /\ (pc = "awaiting" /\ pc' \notin {"awaiting", "generating"})
             => /\ save_status = "none"
                /\ save_status' \in {"saved", "failed"}
                /\ save_status' = "saved" => Written # {}]_vars

\* C8 witness: a new session ended by quit before any answer, and its record
\* with an empty history is in the store
C8_Witness ==
    /\ pc = "idle" /\ mode = "new" /\ save_status = "saved"
    /\ \E p \in DOMAIN session_files :
          /\ session_files[p].parses
          /\ session_files[p].data.conversation_history = <<>>

\* the command of the step is for memo_id
CommandFor(memo_id) ==
    \/ StartInterview(memo_id)
    \/ \E session_file \in DOMAIN session_files :
          /\ session_files[session_file].parses
          /\ session_files[session_file].data.memo_id = memo_id
          /\ ResumeSession(session_file)

\* C9: a new interview or a resume for a memo without a transcript file ends
\* as not found, with no ConversationState, no generation request and no
\* change to the session and insight files.
C9_MissingTranscript ==
    [][\A memo_id \in InterviewTargets \cup {Memo47, Memo48} :
          (memo_id \notin DOMAIN transcripts /\ CommandFor(memo_id)) =>
             /\ outcome' = "not_found"
             /\ pc' = "idle"
             /\ conversation' = NoConversation
             /\ request'.kind = "none"
             /\ session_files' = session_files
             /\ insight_files' = insight_files]_vars

\* C9 witness: a resume ended as not found
C9_Witness == mode = "resume" /\ outcome = "not_found" /\ pc = "idle"

\* C10: the summary has one line for each of the last min(N, 3) of the N
\* exchanges, in their order, each showing the start of that exchange's
\* question and answer; no earlier exchange has a line.
C10_SummaryOfLastThree ==
    Running =>
        LET history == conversation.conversation_history
            N == Len(history)
            k == IF N < 3 THEN N ELSE 3
            summary == get_conversation_summary(conversation)
        IN  /\ Len(summary.lines) = k
            /\ summary.exchanges = N
            /\ \A i \in 1..k :
                  /\ summary.lines[i].n = i
                  /\ IsPrefix(summary.lines[i].Q, history[N - k + i].question)
                  /\ IsPrefix(summary.lines[i].A, history[N - k + i].response)
                  /\ Len(summary.lines[i].Q)
                        = Min(Len(history[N - k + i].question), 100)
                  /\ Len(summary.lines[i].A)
                        = Min(Len(history[N - k + i].response), 100)

\* C10 witness: a conversation of five exchanges whose third question is
\* longer than a preview
C10_Witness ==
    /\ pc = "awaiting"
    /\ Len(conversation.conversation_history) = 5
    /\ Len(conversation.conversation_history[3].question) > 100

\* C13: when the writing analysis of the memo carries writing_ideas = L, the
\* context of a new interview holds exactly L as its writing ideas, and the
\* opening prompt is built from that list.
C13_WritingIdeasLoaded ==
    (Running /\ mode = "new") =>
        LET file == <<conversation.memo_id, "writing">>
            record == IF file \in DOMAIN analysis_files
                      THEN analysis_files[file].data ELSE EmptyDict
        IN  /\ "writing_ideas" \in DOMAIN record
                  => context.writing_ideas = record["writing_ideas"]
            /\ (pc = "generating" /\ site = "opening")
                  => request.writing_ideas = context.writing_ideas

\* C14: for a memo whose transcript exists, an analysis file that is absent
\* or does not parse is not fatal: a new interview or a resume for the memo
\* goes on to its first generation call, with an empty record for that kind.
C14_AnalysisFailureNotFatal ==
    [][\A memo_id \in InterviewTargets \cup {Memo47, Memo48} :
          (memo_id \in DOMAIN transcripts /\ CommandFor(memo_id)) =>
             /\ pc' = "generating"
             /\ outcome' = "running"
             /\ \A t \in Range(analysis_types) :
                   (\/ <<memo_id, t>> \notin DOMAIN analysis_files
                    \/ ~analysis_files[<<memo_id, t>>].parses)
                      => context'.main_memo.analyses[t] = EmptyDict]_vars

\* C15: when save_session fails at the end of a session, the driver is still
\* there with its ConversationState (history, topics, session id) as it was,
\* so that the save can be tried again.
C15_SaveFailureKeepsState ==
    [][(save_status # "failed" /\ save_status' = "failed") =>
          /\ pc' # "idle"
          /\ conversation' = conversation]_vars

\* C17: the insights are asked for only after save_session has written the
\* session record and only when the session holds more than 2 exchanges, and
\* no step of the insights generation or of the insights write, failed or
\* not, changes a session file.
C17_InsightsAfterSave ==
    [][/\ (pc # "insights" /\ pc' = "insights") =>
             LET output_file == SessionPath(conversation.memo_id,
                                            conversation.session_id)
             IN  /\ save_status # "saved" /\ save_status' = "saved"
                 /\ Len(conversation.conversation_history) > 2
                 /\ output_file \in DOMAIN session_files'
                 /\ session_files'[output_file].parses
                 /\ session_files'[output_file].data.conversation_history
                       = conversation.conversation_history
       /\ request'.kind = "insights" => pc' = "insights"
       /\ insight_files' # insight_files => pc = "insights"
       /\ pc = "insights" => session_files' = session_files]_vars

\* C17 witness: the session record was saved, the insights were generated
\* and their write failed; the record is still there and no insights file is
C17_Witness ==
    /\ pc = "idle" /\ mode = "new"
    /\ outcome = "crashed" /\ save_status = "saved"
    /\ insight_files = [q \in {} |-> <<>>]
    /\ \E q \in DOMAIN session_files :
          /\ session_files[q].parses
          /\ Len(session_files[q].data.conversation_history) = 3

\* C19: a new interview or a resume for a memo whose transcript cannot be
\* found ends with a non-zero exit status, and a command that completes
\* ends with status zero.
C19_ExitStatusSignalsNotFound ==
    pc = "idle" =>
        /\ outcome = "not_found" => ExitStatus(outcome) # 0
        /\ outcome = "done" => ExitStatus(outcome) = 0

\* summaries a stored record may carry in place of its own
OtherSummaries ==
    { [main_memo |-> Memo48, related_memos |-> <<>>, writing_ideas_count |-> 0],
      [main_memo |-> Memo46, related_memos |-> <<Memo47, Memo48>>,
       writing_ideas_count |-> 1] }

\* the context_summary save_session computes from a context
SummaryOf(ctx) ==
    [main_memo |-> ctx.main_memo.memo_id,
     related_memos |-> [i \in 1..Len(ctx.related_memos) |-> ctx.related_memos[i].memo_id],
     writing_ideas_count |-> Len(ctx.writing_ideas)]

\* C20: a resume builds its context from the store as it is now, and the
\* record's context_summary decides nothing: with any other context_summary
\* in the record, the context, the restored state and the resumption prompt
\* are the same, and the record saved carries the summary of the rebuilt
\* context.
C20_ContextRebuiltOnResume ==
    [][/\ \A session_file \in DOMAIN session_files :
             (pc = "idle" /\ pc' = "generating" /\ ResumeSession(session_file)) =>
                LET session_data == session_files[session_file].data
                IN  /\ \E memo_files \in Enumerations(GlobMemoFiles) :
                          Return(context')
                             = build_interview_context(session_data.memo_id, memo_files)
                    /\ conversation'.context = context'
                    /\ \A other \in OtherSummaries :
                          LET restored ==
                                  RestoreConversation(
                                      [session_data EXCEPT !.context_summary = other],
                                      context', clock')
                          IN  /\ session_data.context_summary # other
                              /\ restored = conversation'
                              /\ continue_prompt(context', restored) = request'
       /\ (mode = "resume" /\ save_status # "saved" /\ save_status' = "saved") =>
             session_files'[SessionPath(conversation.memo_id,
                                        conversation.session_id)].data.context_summary
                = SummaryOf(context)]_vars

\* C20 witness: the record resumed from named memo_48 as related and 7
\* writing ideas; the record saved at the end of the resumed session names
\* memo_47 and 1 idea, as the store gives them
C20_Witness ==
    /\ pc = "idle" /\ mode = "resume" /\ save_status = "saved"
    /\ OldRecord(Memo46).context_summary.related_memos = <<Memo48>>
    /\ SessionPath(Memo46, OldSessionId) \in DOMAIN session_files
    /\ session_files[SessionPath(Memo46, OldSessionId)].parses
    /\ session_files[SessionPath(Memo46, OldSessionId)].data.context_summary
          = [main_memo |-> Memo46, related_memos |-> <<Memo47>>,
             writing_ideas_count |-> 1]

\* C21: a driver is sequential.  A generation request is outstanding exactly
\* while the driver is in a call of call_ollama, and then it is one request;
\* while the driver reads input none is outstanding; and a follow-up request
\* is outstanding only with the answer to the question shown already appended
\* as the last exchange, the request being built from the history that
\* holds it.
C21_StrictlySequential ==
    /\ request.kind # "none" <=> pc \in {"generating", "insights"}
    /\ pc = "awaiting" => request = NoRequest
    /\ pc = "generating" => request.kind = site
    /\ (pc = "generating" /\ site = "followup") =>
          LET history == conversation.conversation_history
          IN  /\ Len(history) > Len(BaseHistory)
              /\ history[Len(history)].response = request.latest_response
              /\ history[Len(history)].question = shown
              /\ entered[Len(entered)].response = request.latest_response
              /\ request.so_far = get_conversation_summary(conversation)

\* C21 witness: the second answer of a run was appended and the follow-up
\* request for it is outstanding
C21_Witness ==
    /\ pc = "generating" /\ site = "followup"
    /\ Len(entered) = 2
    /\ request.so_far.exchanges = Len(BaseHistory) + 2

\* the prompt holds the transcript of the target, as the context holds it:
\* the text of the transcript file without the white space around it
HoldsTranscript ==
    /\ request.transcript = context.main_memo.transcript
    /\ request.transcript = Strip(transcripts[conversation.memo_id])

\* the prompt holds the writing ideas and seed questions of the context and,
\* for each related memo in order, its id and the first 200 characters of
\* its transcript
HoldsIdeasAndRelated ==
    /\ {"writing_ideas", "initial_questions", "related_content"} \subseteq DOMAIN request
    /\ request.writing_ideas = context.writing_ideas
    /\ request.initial_questions = context.initial_questions
    /\ Len(request.related_content) = Len(context.related_memos)
    /\ \A i \in 1..Len(context.related_memos) :
          LET related == context.related_memos[i]
              rendered == request.related_content[i]
          IN  /\ rendered.memo_id = related.memo_id
              /\ IsPrefix(rendered.excerpt, related.context.transcript)
              /\ Len(rendered.excerpt) = Min(Len(related.context.transcript), 200)

PassLines ==
    {line \in InputLines :
        \/ Lower(Stripped[line]) \in {<<"s","u","m","m","a","r","y">>,
                                       <<"c","o","n","t","e","x","t">>}
        \/ Stripped[line] = <<>>}

\* C25: on summary, on context and on a line of white space the driver
\* stays where it waits for input: the history, the explored topics, the
\* session id and the pending question are unchanged, the question shown
\* next is the same, no generation request is made and no file is written.
C25_CommandPassChangesNothing ==
    [][\A line \in PassLines :
          (pc = "awaiting" /\ ReadInput(line)) =>
             /\ pc' = "awaiting"
             /\ conversation' = conversation
             /\ opening_question' = opening_question
             /\ shown' = shown /\ shown' = opening_question'
             /\ request' = NoRequest
             /\ entered' = entered
             /\ session_files' = session_files
             /\ insight_files' = insight_files
             /\ save_status' = "none"]_vars

\* C25 witness: a driver waits for input on a generated question after one
\* answer, where summary, context and the empty line leave it
C25_Witness ==
    /\ pc = "awaiting"
    /\ Len(entered) = 1
    /\ shown = GeneratedQuestion
    /\ conversation.explored_topics # {}
    /\ \A line \in PassLines : ENABLED ReadInput(line)

\* a driver is in its loop, and a driver has left its loop with save_session
\* run to its end or failed
InLoop == pc \in {"generating", "awaiting"}
Terminated == pc \in {"idle", "insights"} /\ save_status \in {"saved", "failed"}

\* C27: every driver that entered its loop leaves it with save_session
\* attempted, when every generation call returns and the user at some time
\* enters quit; a generation call, whatever its outcome, leads back to the
\* wait for input; and the loop is left on quit only.
C27_LoopEndsOnQuitOnly ==
    /\ InLoop ~> Terminated
    /\ [][/\ pc = "generating" => pc' = "awaiting"
          /\ (InLoop /\ pc' \notin {"generating", "awaiting"}) =>
                /\ pc = "awaiting"
                /\ UserQuits
                /\ save_status' \in {"saved", "failed"}]_vars

\* C27 witness: a new session whose opening and follow-up generations both
\* failed was ended by quit and saved with its two exchanges
C27_Witness ==
    /\ pc = "idle" /\ mode = "new" /\ outcome = "done" /\ save_status = "saved"
    /\ \E q \in DOMAIN session_files :
          /\ session_files[q].parses
          /\ Len(session_files[q].data.conversation_history) = 2
          /\ session_files[q].data.conversation_history[1].question = FallbackOpening
          /\ session_files[q].data.conversation_history[2].question = FallbackFollowup

\* the second a time in ticks lies in
SecondOf(ticks) == ticks \div TicksPerSecond

\* C28: the file a save writes is named by the memo id and the session id
\* and by nothing else; the session id of a fresh session is the second it
\* was created in; and a fresh session started after a fresh session of the
\* same memo was saved has the path of that session's record exactly when
\* both were created in the same second.
C28_PathBySecond ==
    [][/\ SaveSucceeds =>
             /\ Written \subseteq {SessionPath(conversation.memo_id,
                                                conversation.session_id)}
             /\ \A q \in Written :
                   q = [dir |-> "writing_projects", memo_id |-> conversation.memo_id,
                        name |-> "interactive_interview",
                        session_id |-> conversation.session_id]
       /\ (pc = "idle" /\ pc' = "generating" /\ mode' = "new") =>
             /\ conversation'.session_id.at = SecondOf(clock')
             /\ clock' > clock
       /\ (pc = "idle" /\ mode = "new" /\ save_status = "saved"
             /\ pc' = "generating" /\ mode' = "new") =>
             \A q \in DOMAIN session_files :
                (/\ session_files[q].parses
                 /\ session_files[q].data.timestamp = IsoFormat(clock)
                 /\ q.memo_id = conversation'.memo_id) =>
                    (SessionPath(conversation'.memo_id, conversation'.session_id) = q
                        <=> SecondOf(clock) = SecondOf(clock'))]_vars

\* C28 witness: a fresh session of memo_46 runs whose path is that of the
\* record a session created one tick earlier, in the same second, has saved
C28_Witness ==
    /\ pc = "awaiting" /\ mode = "new"
    /\ LET output_file == SessionPath(conversation.memo_id, conversation.session_id)
       IN  /\ output_file \in DOMAIN session_files
           /\ session_files[output_file].parses
           /\ session_files[output_file].data.timestamp = IsoFormat(clock - 1)
           /\ SecondOf(clock - 1) = SecondOf(clock)

\* C29: a resumed session makes no insights request and writes no insights
\* file, however many exchanges it holds: while the command is a resume the
\* insights files stay as they are and no insights request is outstanding,
\* and the save that ends it writes the session record only and ends the
\* command.
C29_ResumeWritesNoInsights ==
    [][/\ (mode = "resume" \/ mode' = "resume") =>
             /\ insight_files' = insight_files
             /\ pc' # "insights"
             /\ request'.kind # "insights"
       /\ (mode = "resume" /\ SaveSucceeds) =>
             /\ Written \subseteq {SessionPath(conversation.memo_id,
                                                conversation.session_id)}
             /\ pc' = "idle" /\ outcome' = "done"]_vars

\* C29 witness: a resumed session ended and was saved with five exchanges,
\* two of the record and three new, and the store holds no insights file
C29_Witness ==
    /\ pc = "idle" /\ mode = "resume" /\ outcome = "done" /\ save_status = "saved"
    /\ insight_files = [q \in {} |-> <<>>]
    /\ \E q \in DOMAIN session_files :
          /\ session_files[q].parses
          /\ Len(session_files[q].data.conversation_history) = 5

\* C30: the question a driver waits for an answer to is a text that is not
\* empty: it is the completion the generator returned, when that is not
\* empty, and else the fallback question of the call site; and it is the
\* question on the screen.
C30_PendingQuestionNonEmpty ==
    pc = "awaiting" =>
        /\ opening_question # None
        /\ Len(opening_question) > 0
        /\ opening_question \in
              {reply.response : reply \in {r \in Replies : r.ok /\ r.response # <<>>}}
              \cup {FallbackOpening, FallbackResume, FallbackFollowup}
        /\ opening_question \in {FallbackOpening, FallbackResume, FallbackFollowup}
              => opening_question = Fallback(site)
        /\ shown = opening_question

\* C30 witness: the generator returned an empty completion for the second
\* follow-up question of a resumed session, which waits with the fallback
C30_Witness ==
    /\ pc = "awaiting" /\ mode = "resume" /\ site = "followup"
    /\ Len(entered) = 2
    /\ entered[1].question = FallbackResume
    /\ entered[2].question = GeneratedQuestion
    /\ opening_question = FallbackFollowup

\* the exchanges of history after the first n have no topic
UntaggedAfter(history, n) ==
    \A i \in (n + 1)..Len(history) : history[i].topic = None

\* C31: a driver tags no exchange with a topic.  Every exchange appended in
\* a run has topic None; the explored topics of a fresh session are empty
\* and those of a resumed session are the set restored from its record, in
\* every state of the run; and so it is in the records saved: a record of a
\* fresh session has no topic in any exchange and an empty topic list, and a
\* record of a session resumed from a stored record has the topics of that
\* record and no topic in the exchanges added.
C31_NoExchangeTagged ==
    /\ Running =>
          /\ UntaggedAfter(conversation.conversation_history, Len(BaseHistory))
          /\ mode = "new" => conversation.explored_topics = {}
          /\ mode = "resume" =>
                conversation.explored_topics = Range(resumed.explored_topics)
    /\ \A q \in DOMAIN session_files :
          session_files[q].parses =>
             LET record == session_files[q].data
             IN  IF record.session_id = OldSessionId
                 THEN /\ Range(record.explored_topics)
                            = Range(OldRecord(record.memo_id).explored_topics)
                      /\ IsPrefix(OldRecord(record.memo_id).conversation_history,
                                  record.conversation_history)
                      /\ UntaggedAfter(record.conversation_history,
                                       Len(OldRecord(record.memo_id).conversation_history))
                 ELSE /\ record.explored_topics = <<>>
                      /\ UntaggedAfter(record.conversation_history, 0)

\* C31 witness: a resumed session was saved with the two exchanges of its
\* record, the first of them tagged, and two new ones without topic, and
\* with the two topics of its record
C31_Witness ==
    /\ pc = "idle" /\ mode = "resume" /\ save_status = "saved"
    /\ \E q \in DOMAIN session_files :
          /\ session_files[q].parses
          /\ Len(session_files[q].data.conversation_history) = 4
          /\ session_files[q].data.conversation_history[1].topic = TopicFamily
          /\ session_files[q].data.conversation_history[4].topic = None
          /\ Range(session_files[q].data.explored_topics) = {TopicFood, TopicFamily}
          /\ session_files[q].data.timestamp # OldStamp

----------------------------------------------------------------------------
(* Properties of the read-only queries *)

\* find_related_memos returned a list
Found == call.kind = "find_related_memos" /\ returned.kind = "return"

\* a memo id as the codes its characters compare by
MemoIdKey(memo_id) ==
    <<IF memo_id.prefix = "memo_" THEN 109 ELSE 110>> \o Digits(memo_id.num)

\* C11: the list find_related_memos returns is sorted non-increasing by
\* similarity, and two results of equal similarity are in ascending order
\* of memo id, whatever order the files were enumerated in.
C11_SortedWithIdTieBreak ==
    Found =>
        \A i, j \in 1..Len(returned.value) :
            i < j =>
                /\ ~Greater(returned.value[j].similarity, returned.value[i].similarity)
                /\ returned.value[i].similarity = returned.value[j].similarity
                      => LexLess(MemoIdKey(returned.value[i].memo_id),
                                 MemoIdKey(returned.value[j].memo_id))

\* the 4+-letter words of a memo's transcript, lower-cased
TokenSet(memo_id) == FindWords(Lower(transcripts[memo_id]))

\* C12: find_related_memos returns at most max_related results, never the
\* target, and each result has both token sets non-empty and a Jaccard
\* similarity strictly above 0.1; with memo_2 at 0.05, memo_3 at 0.2 and
\* memo_4 at 0.1 of memo_1, only memo_3 is related to memo_1.
C12_CappedAboveThreshold ==
    Found =>
        /\ Len(returned.value) <= call.max_related
        /\ \A i \in 1..Len(returned.value) :
              LET other == returned.value[i].memo_id
                  inter == Cardinality(TokenSet(call.memo_id) \cap TokenSet(other))
                  union == Cardinality(TokenSet(call.memo_id) \cup TokenSet(other))
              IN  /\ other # call.memo_id
                  /\ TokenSet(call.memo_id) # {} /\ TokenSet(other) # {}
                  /\ 10 * inter > union
                  /\ returned.value[i].similarity.num * union
                        = inter * returned.value[i].similarity.den
        /\ (transcripts = ThresholdTranscripts /\ call.memo_id = Memo1
               /\ call.max_related >= 1)
              => [i \in 1..Len(returned.value) |-> returned.value[i].memo_id]
                    = <<Memo3>>

\* C12 witness: the query for memo_1 over the store with candidates at 0.05,
\* 0.2 and 0.1 returned the one at 0.2
C12_Witness ==
    /\ Found
    /\ transcripts = ThresholdTranscripts
    /\ call.memo_id = Memo1 /\ call.max_related = 3
    /\ Len(returned.value) = 1
    /\ returned.value[1].similarity = [num |-> 1, den |-> 5]

\* C16: list_interview_sessions returns one entry for every session file
\* that matches the pattern and parses, skipping those that do not parse; a
\* file that does not parse ends a command only when it is the file given to
\* resume_interview_session, which then ends with a load error and writes
\* nothing.
C16_UnparsableSessionRecord ==
    [][/\ (call.kind = "none" /\ call'.kind = "list_interview_sessions") =>
             LET wellFormed ==
                     {q \in DOMAIN session_files :
                         /\ session_files[q].parses
                         /\ call'.memo_id \in {NoMemoId, q.memo_id}}
                 listed == returned'.value
             IN  /\ returned'.kind = "return"
                 /\ Len(listed) = Cardinality(wellFormed)
                 /\ {listed[i].file : i \in 1..Len(listed)} = wellFormed
                 /\ \A i \in 1..Len(listed) :
                       /\ listed[i].session_id
                             = session_files[listed[i].file].data.session_id
                       /\ listed[i].exchanges
                             = Len(session_files[listed[i].file].data.conversation_history)
       /\ \A session_file \in DOMAIN session_files :
             ResumeSession(session_file) =>
                IF session_files[session_file].parses
                THEN outcome' # "load_error"
                ELSE /\ outcome' = "load_error"
                     /\ pc' = "idle"
                     /\ conversation' = NoConversation
                     /\ request'.kind = "none"
                     /\ session_files' = session_files
                     /\ insight_files' = insight_files]_vars

\* C16 witness: a resume of the file that does not parse ended with a load
\* error, and the listing of all sessions then returned the two others
C16_Witness ==
    /\ outcome = "load_error"
    /\ call.kind = "list_interview_sessions" /\ call.memo_id = NoMemoId
    /\ Len(returned.value) = 2
    /\ Cardinality(DOMAIN session_files) = 3

\* memo m is in the list returned, or the list holds max_related memos that
\* all rank at or above m
Ranked(m) ==
    LET inter == Cardinality(TokenSet(call.memo_id) \cap TokenSet(m))
        union == Cardinality(TokenSet(call.memo_id) \cup TokenSet(m))
    IN  \/ \E i \in 1..Len(returned.value) : returned.value[i].memo_id = m
        \/ /\ Len(returned.value) = call.max_related
           /\ \A i \in 1..Len(returned.value) :
                 returned.value[i].similarity.num * union
                    >= inter * returned.value[i].similarity.den

\* the similarity of memo m to the target is above 0.1
AboveThreshold(m) ==
    /\ TokenSet(call.memo_id) # {} /\ TokenSet(m) # {}
    /\ 10 * Cardinality(TokenSet(call.memo_id) \cap TokenSet(m))
          > Cardinality(TokenSet(call.memo_id) \cup TokenSet(m))

\* C18 as stated: every memo other than the target that has a transcript
\* <memoId>.txt, whatever the form of its id, and a similarity above the
\* threshold is in the list returned, unless the list already holds
\* max_related memos ranked at or above it.
C18_EveryOtherMemoCompared ==
    (Found /\ call.memo_id \in DOMAIN transcripts) =>
        \A m \in DOMAIN transcripts \ {call.memo_id} :
            (load_memo_context(m).kind = "return" /\ AboveThreshold(m)) => Ranked(m)

\* C18 amended: the same, for every other memo whose transcript file is
\* named memo_*.txt; a transcript under another name is never a candidate.
C18_EveryOtherGlobbedMemoCompared ==
    (Found /\ call.memo_id \in DOMAIN transcripts) =>
        /\ \A m \in DOMAIN transcripts \ {call.memo_id} :
              (m.prefix = "memo_" /\ load_memo_context(m).kind = "return"
                 /\ AboveThreshold(m)) => Ranked(m)
        /\ \A i \in 1..Len(returned.value) : returned.value[i].memo_id.prefix = "memo_"

\* C18 witness: note_7 has the words of memo_1 and is not among the memos
\* related to memo_1, which are memo_2 alone
C18_Witness ==
    /\ Found
    /\ transcripts = OtherFormTranscripts
    /\ call.memo_id = Memo1 /\ call.max_related = 2
    /\ transcripts[Note7] = transcripts[Memo1]
    /\ Len(returned.value) = 1
    /\ returned.value[1].memo_id = Memo2

\* every score find_related_memos appends for memo_id, the files listed as
\* in the query made
AllScores(memo_id) ==
    find_related_memos(memo_id, Cardinality(DOMAIN transcripts), call.memo_files)

C24_BuildContextReadOnly ==
    [][(call.kind = "none" /\ call'.kind = "build_interview_context") =>
          /\ transcripts' = transcripts
          /\ analysis_files' = analysis_files
          /\ session_files' = session_files
          /\ insight_files' = insight_files
          /\ returned'.kind = "None" <=> call'.memo_id \notin DOMAIN transcripts
          /\ returned'.kind = "return" =>
                /\ returned'.value.main_memo = load_memo_context(call'.memo_id).value
                /\ returned'.value.related_memos
                      = find_related_memos(call'.memo_id, DefaultMaxRelated,
                                           call'.memo_files)
          /\ returned' = build_interview_context(call'.memo_id, call'.memo_files)]_vars

\* C24 witness: the context of memo_1 was built with its three closest
\* memos out of four, from a store holding a session file
C24_Witness ==
    /\ call.kind = "build_interview_context"
    /\ call.memo_id = Memo1
    /\ returned.kind = "return"
    /\ Len(returned.value.related_memos) = 3
    /\ session_files # NoSessions

\* reading memo m's transcript or loading its context raises
Failing(m) == load_memo_context(m).kind = "raise"

\* the score of memo m against the target of the query
ScoreOf(m) ==
    [memo_id |-> m,
     similarity |-> Ratio(Cardinality(TokenSet(call.memo_id) \cap TokenSet(m)),
                          Cardinality(TokenSet(call.memo_id) \cup TokenSet(m))),
     context |-> load_memo_context(m).value]

\* what the query returns of the files listed without those that fail: the
\* first max_related of their scores above the threshold, sorted
WithoutFailing ==
    LET others == SelectSeq(call.memo_files,
                            LAMBDA m : m # call.memo_id /\ ~Failing(m)
                                       /\ AboveThreshold(m))
    IN  Take(SortBySimilarity([i \in 1..Len(others) |-> ScoreOf(others[i])]),
             call.max_related)

\* C26: a candidate whose transcript cannot be read, or whose context does
\* not load, does not end find_related_memos: for a target that loads, the
\* call returns, and what it returns is what the other candidates alone
\* give, in the same order and under the same cap; the failing candidate is
\* not in it.
C26_FailingCandidateSkipped ==
    (call.kind = "find_related_memos" /\ call.memo_id \in DOMAIN transcripts
        /\ ~Failing(call.memo_id)) =>
        /\ returned.kind = "return"
        /\ returned.value = WithoutFailing
        /\ \A i \in 1..Len(returned.value) : ~Failing(returned.value[i].memo_id)

\* C26 witness: memo_4, at 3/4 the closest to memo_1, has an analysis that
\* does not parse; the query for memo_1 returned the three other memos
C26_Witness ==
    /\ Found
    /\ transcripts = TiedTranscripts
    /\ call.memo_id = Memo1 /\ call.max_related = 3
    /\ Failing(Memo4)
    /\ Head(call.memo_files) = Memo4
    /\ {returned.value[i].memo_id : i \in 1..Len(returned.value)} = {Memo2, Memo3, Memo5}

====
